---- MODULE Spec2Model ----
(***************************************************************************)
(* Model of file2png.py: encode_file (file -> ZIP bytes -> square bitmap)  *)
(* and decode_png (bitmap -> bytes -> ZIP extraction).                     *)
(*                                                                         *)
(* Paths are sequences of one-character strings, byte streams are          *)
(* sequences of integers 0..255, bit strings are sequences of the          *)
(* characters "0" and "1", an image is a record [width, height, pix] with  *)
(* pix a function of <<x, y>>.                                             *)
(***************************************************************************)
EXTENDS Integers, Sequences, FiniteSets, TLC

\* ---------------------------------------------------------------- bounds
MaxLen == 2
MaxPixels == 9
MaxSide == 3

\* ------------------------------------------------- fixed configuration
WHITE == 255
BLACK == 0
GRAY_PADDING == 127
BITS_PER_BYTE == 8

\* ------------------------------------------------------ generic helpers
Max(a, b) == IF a >= b THEN a ELSE b

RECURSIVE Flatten(_)
Flatten(ss) == IF ss = <<>> THEN <<>> ELSE Head(ss) \o Flatten(Tail(ss))

\* largest index of c in p, 0 when absent (str.rfind, 1-based)
RFind(p, c) ==
    LET hits == {i \in 1..Len(p) : p[i] = c}
    IN IF hits = {} THEN 0 ELSE CHOOSE i \in hits : \A j \in hits : j <= i

\* ---------------------------------------------------------- os.path, str
LowerChar(c) ==
    CASE c = "Z" -> "z" [] c = "I" -> "i" [] c = "P" -> "p"
      [] c = "N" -> "n" [] c = "G" -> "g" [] c = "A" -> "a"
      [] OTHER -> c

\* a case-sensitive comparison
LowerNone(p) == p

Lower(p) == [i \in 1..Len(p) |-> LowerChar(p[i])]

EndsWith(p, suffix) ==
    /\ Len(p) >= Len(suffix)
    /\ SubSeq(p, Len(p) - Len(suffix) + 1, Len(p)) = suffix

\* the directory components kept in the entry name
BasenameKeepDirs(p) == p

Basename(p) == SubSeq(p, RFind(p, "/") + 1, Len(p))

\* os.path.splitext(p)[1]: the extension starts at the last dot of the last
\* component, unless only dots precede it in that component
SplitExt(p) ==
    LET sepIndex == RFind(p, "/")
        dotIndex == RFind(p, ".")
    IN IF /\ dotIndex > sepIndex
          /\ \E k \in (sepIndex + 1)..(dotIndex - 1) : p[k] # "."
       THEN SubSeq(p, dotIndex, Len(p))
       ELSE <<>>

DotZip == <<".", "z", "i", "p">>
DotPng == <<".", "p", "n", "g">>

\* -------------------------------------------------- bytes <-> bit strings
\* bin(v)[2:]
RECURSIVE Bin(_)
Bin(v) == IF v < 2 THEN <<IF v = 1 THEN "1" ELSE "0">>
          ELSE Bin(v \div 2) \o <<IF v % 2 = 1 THEN "1" ELSE "0">>

ZFill(s, w) == [i \in 1..(Max(w, Len(s)) - Len(s)) |-> "0"] \o s

\* the short block padded on the wrong side
LJustLeft(s, w) == ZFill(s, w)

LJust(s, w) == s \o [i \in 1..(Max(w, Len(s)) - Len(s)) |-> "0"]

\* int(block, 2)
RECURSIVE Int2(_)
Int2(block) ==
    IF block = <<>> THEN 0
    ELSE 2 * Int2(SubSeq(block, 1, Len(block) - 1))
         + (IF block[Len(block)] = "1" THEN 1 ELSE 0)

\* lines 62-66
RECURSIVE ImageBits(_)
ImageBits(binary) ==
    IF binary = <<>> THEN <<>>
    ELSE ZFill(Bin(Head(binary)), BITS_PER_BYTE) \o ImageBits(Tail(binary))

\* math.ceil(math.sqrt(n)), exact for the bit counts a file can have:
\* the first integer at or above the square root
RECURSIVE CeilSqrtFrom(_, _)
CeilSqrtFrom(n, s) == IF s * s >= n THEN s ELSE CeilSqrtFrom(n, s + 1)

\* floor(sqrt(n)) + 1: one too many on perfect squares
CeilSqrtFloorPlusOne(n) == CeilSqrtFrom(n + 1, 0)

CeilSqrt(n) == CeilSqrtFrom(n, 0)

\* ------------------------------------------------------------- bitmap
NoImage == [width |-> -1, height |-> -1, pix |-> <<>>]

\* the cell filled column by column
PixelAtColumnMajor(image_bits, side, x, y) ==
    LET index == x * side + y
    IN IF index < Len(image_bits)
       THEN (IF image_bits[index + 1] = "1" THEN WHITE ELSE BLACK)
       ELSE GRAY_PADDING

\* lines 76-84: the value drawn at cell (x, y); the y/x loops reach the
\* cell with the running index at y*side + x, or stopped at num_bits
PixelAt(image_bits, side, x, y) ==
    LET index == y * side + x
    IN IF index < Len(image_bits)
       THEN (IF image_bits[index + 1] = "1" THEN WHITE ELSE BLACK)
       ELSE GRAY_PADDING

\* lines 60-84: the grid encode_file builds for a byte stream
Pack(binary) ==
    LET image_bits == ImageBits(binary)
        num_bits == Len(image_bits)
        side == CeilSqrt(num_bits)
    IN [width |-> side, height |-> side,
        pix |-> [c \in (0..(side - 1)) \X (0..(side - 1)) |->
                    PixelAt(image_bits, side, c[1], c[2])]]

\* lines 109-111: the pixel values in the order the y/x loops visit them
Scan(img) ==
    [p \in 1..(img.width * img.height) |->
        img.pix[<<(p - 1) % img.width, (p - 1) \div img.width>>]]

IsData(val) == val = BLACK \/ val = WHITE

\* padding read as a 0 bit
ReadBitsPadAsZero(img) ==
    [p \in 1..Len(Scan(img)) |-> IF Scan(img)[p] = WHITE THEN "1" ELSE "0"]

\* lines 109-114
ReadBits(img) ==
    LET data == SelectSeq(Scan(img), IsData)
    IN [i \in 1..Len(data) |-> IF data[i] = BLACK THEN "0" ELSE "1"]

\* lines 121-129
RECURSIVE ReconstructBytes(_, _)
ReconstructBytes(read_bits, i) ==
    IF i >= Len(read_bits) THEN <<>>
    ELSE LET raw == SubSeq(read_bits, i + 1,
                           IF i + BITS_PER_BYTE <= Len(read_bits)
                           THEN i + BITS_PER_BYTE ELSE Len(read_bits))
             block == IF Len(raw) < BITS_PER_BYTE
                      THEN LJust(raw, BITS_PER_BYTE) ELSE raw
         IN <<Int2(block)>> \o ReconstructBytes(read_bits, i + BITS_PER_BYTE)

\* the empty check left out
NoBitsIgnored(read_bits) == FALSE

\* not read_bits (line 116)
NoBits(read_bits) == read_bits = <<>>

\* the folder not created
MakeDirsSkipped(exists) == exists

\* lines 136-137: the destination folder exists afterwards
MakeDirs(exists) == IF ~exists THEN TRUE ELSE exists

\* --------------------------------------------------------------- zipfile
(***************************************************************************)
(* The zipfile library is modelled by a small container with the same     *)
(* two layers the library reads: a directory that ZipFile() walks when it  *)
(* opens the stream (BadZipFile when it does not parse, before anything is *)
(* written), and per-member data checked only when the member is          *)
(* extracted (BadZipFile on a checksum mismatch, zlib.error on undecodable *)
(* data; the members before it are already on disk and the target file of  *)
(* the failing member has been created empty).                             *)
(*   stream = "PK" count member*                                           *)
(*   member = nameLen name compLen comp crc                                *)
(* Deflate is a run-length coder: <<count, byte>> pairs.                   *)
(***************************************************************************)
ZIP_MAGIC == <<80, 75>>

Ord(c) ==
    CASE c = "a" -> 97 [] c = "b" -> 98 [] c = "d" -> 100 [] c = "." -> 46
      [] c = "/" -> 47 [] c = "z" -> 122 [] c = "i" -> 105 [] c = "p" -> 112
      [] c = "Z" -> 90 [] c = "I" -> 73 [] c = "P" -> 80 [] c = "A" -> 65
      [] OTHER -> 63

Chr(b) ==
    CASE b = 97 -> "a" [] b = 98 -> "b" [] b = 100 -> "d" [] b = 46 -> "."
      [] b = 47 -> "/" [] b = 122 -> "z" [] b = 105 -> "i" [] b = 112 -> "p"
      [] b = 90 -> "Z" [] b = 73 -> "I" [] b = 80 -> "P" [] b = 65 -> "A"
      [] OTHER -> "?"

EncodeName(name) == [i \in 1..Len(name) |-> Ord(name[i])]
DecodeName(bs) == [i \in 1..Len(bs) |-> Chr(bs[i])]

RECURSIVE Crc(_)
Crc(data) == IF data = <<>> THEN 0 ELSE (Head(data) + Crc(Tail(data))) % 256

RunLen(s) ==
    CHOOSE k \in 1..Len(s) :
        /\ \A i \in 1..k : s[i] = s[1]
        /\ k = Len(s) \/ s[k + 1] # s[1]

RECURSIVE Deflate(_)
Deflate(s) ==
    IF s = <<>> THEN <<>>
    ELSE <<RunLen(s), s[1]>> \o Deflate(SubSeq(s, RunLen(s) + 1, Len(s)))

RECURSIVE Inflate(_)
Inflate(c) ==
    IF c = <<>> THEN [ok |-> TRUE, data |-> <<>>]
    ELSE IF Len(c) < 2 \/ c[1] = 0 THEN [ok |-> FALSE, data |-> <<>>]
    ELSE LET rest == Inflate(SubSeq(c, 3, Len(c)))
         IN [ok |-> rest.ok,
             data |-> [i \in 1..c[1] |-> c[2]] \o rest.data]

ZipSerialize(members) ==
    ZIP_MAGIC \o <<Len(members)>> \o
    Flatten([i \in 1..Len(members) |->
               <<Len(members[i].name)>> \o EncodeName(members[i].name)
               \o <<Len(members[i].comp)>> \o members[i].comp
               \o <<members[i].crc>>])

MemberOf(name, data) ==
    [name |-> name, comp |-> Deflate(data), crc |-> Crc(data)]

\* lines 53-57: a new single-entry ZIP_DEFLATED archive in memory
ZipWrite(arcname, data) == ZipSerialize(<<MemberOf(arcname, data)>>)

RECURSIVE ParseMembers(_, _, _)
ParseMembers(bs, pos, count) ==
    IF count = 0
    THEN [ok |-> pos = Len(bs) + 1, members |-> <<>>]
    ELSE IF pos > Len(bs) \/ pos + bs[pos] + 1 > Len(bs)
    THEN [ok |-> FALSE, members |-> <<>>]
    ELSE LET nl == bs[pos]
             cl == bs[pos + nl + 1]
         IN IF pos + nl + cl + 2 > Len(bs)
            THEN [ok |-> FALSE, members |-> <<>>]
            ELSE LET rest == ParseMembers(bs, pos + nl + cl + 3, count - 1)
                 IN [ok |-> rest.ok,
                     members |->
                       <<[name |-> DecodeName(SubSeq(bs, pos + 1, pos + nl)),
                          comp |-> SubSeq(bs, pos + nl + 2, pos + nl + cl + 1),
                          crc |-> bs[pos + nl + cl + 2]]>> \o rest.members]

\* line 142: zipfile.ZipFile(memory_buffer, 'r')
ZipOpen(bs) ==
    IF Len(bs) < 3 \/ SubSeq(bs, 1, 2) # ZIP_MAGIC
    THEN [ok |-> FALSE, members |-> <<>>]
    ELSE ParseMembers(bs, 4, bs[3])

WriteFile(files, name, data) ==
    {f \in files : f.name # name} \cup {[name |-> name, data |-> data]}

\* line 143: zf.extractall(path=dest_folder), member by member
RECURSIVE ExtractAll(_, _, _)
ExtractAll(members, files, written) ==
    IF members = <<>>
    THEN [status |-> "ok", files |-> files, written |-> written]
    ELSE LET m == Head(members)
             inf == Inflate(m.comp)
         IN IF ~inf.ok
            THEN [status |-> "zlib.error",
                  files |-> WriteFile(files, m.name, <<>>),
                  written |-> Append(written, m.name)]
            ELSE IF Crc(inf.data) # m.crc
            THEN [status |-> "BadZipFile",
                  files |-> WriteFile(files, m.name, <<>>),
                  written |-> Append(written, m.name)]
            ELSE ExtractAll(Tail(members),
                            WriteFile(files, m.name, inf.data),
                            Append(written, m.name))

\* line 144: zf.namelist()
NameList(members) == [i \in 1..Len(members) |-> members[i].name]

\* ------------------------------------------------------------ the inputs
Bytes == {0, 65, 255}

RawContents == UNION {[1..n -> Bytes] : n \in 0..MaxLen}

\* a source path that names no file
NoFile == <<-1>>

\* .zip sources: well-formed archives, and archives damaged in the
\* directory, in a member's checksum and in a member's compressed data
GoodOne == <<MemberOf(<<"a">>, <<65>>)>>
GoodTwo == <<MemberOf(<<"a">>, <<65>>), MemberOf(<<"b">>, <<0, 0>>)>>
BadCrcTwo == <<MemberOf(<<"a">>, <<65>>),
               [name |-> <<"b">>, comp |-> <<2, 0>>, crc |-> 1]>>
BadDataTwo == <<MemberOf(<<"a">>, <<65>>),
                [name |-> <<"b">>, comp |-> <<0, 7>>, crc |-> 0]>>

ArchiveContents ==
    { ZipSerialize(<<>>), ZipSerialize(GoodOne), ZipSerialize(GoodTwo),
      ZipSerialize(BadCrcTwo), ZipSerialize(BadDataTwo),
      ZipSerialize(GoodOne) \o <<0>> }

Contents == RawContents \cup ArchiveContents

Paths ==
    { <<"a">>, <<"d", "/", "a">>, <<"a", ".", "b">>,
      <<"a", ".", "z", "i", "p">>, <<"a", ".", "Z", "I", "P">>,
      <<"d", "/", "b", ".", "z", "i", "p">>, <<".", "z", "i", "p">>,
      <<"d", ".", "z", "i", "p", "/", "a">> }

DestPaths == { <<"o">>, <<"o", ".", "P", "N", "G">> }

PixelValues == {BLACK, WHITE, GRAY_PADDING}

\* the shapes <<width, height>> of the image files given to decode_png
Shapes ==
    { sh \in (1..MaxSide) \X (0..MaxSide) : sh[1] * sh[2] <= MaxPixels }

Grids(w, h) == [(0..(w - 1)) \X (0..(h - 1)) -> PixelValues]

\* the destination folder before the run: absent, or holding one file
DestStates ==
    { [exists |-> FALSE, files |-> {}],
      [exists |-> TRUE, files |-> {[name |-> <<"a">>, data |-> <<0>>]}] }

\* ------------------------------------------------------------- the state
VARIABLES file_path, file_data, png_dest_path, png_path, png, binary_data,
          enc, dest_exists, dest_files, dec, dec_step, read_bits,
          bytes_data, names, written

vars == <<file_path, file_data, png_dest_path, png_path, png, binary_data,
          enc, dest_exists, dest_files, dec, dec_step, read_bits,
          bytes_data, names, written>>

Init ==
    /\ \E d \in DestStates : dest_exists = d.exists /\ dest_files = d.files
    /\ \/ /\ file_path \in Paths
          /\ file_data \in Contents
          /\ png_dest_path \in DestPaths
          /\ png = NoImage
          /\ png_path = <<>>
       \/ /\ file_path = <<"a">>
          /\ file_data = NoFile
          /\ png_dest_path = <<"o">>
          /\ png = NoImage
          /\ png_path = <<"o", ".", "p", "n", "g">>
    /\ binary_data = <<>>
    /\ enc = "none"
    /\ dec = "none"
    /\ dec_step = "none"
    /\ read_bits = <<>>
    /\ bytes_data = <<>>
    /\ names = <<>>
    /\ written = <<>>

\* lines 38-57: the byte stream encode_file hands to the bitmap stage
Wrap(path, data) ==
    IF Lower(SplitExt(path)) = DotZip
    THEN data
    ELSE ZipWrite(Basename(path), data)

\* lines 87-88
SavePath(dest) ==
    IF ~EndsWith(Lower(dest), DotPng) THEN dest \o DotPng ELSE dest

\* encode_file, lines 37-94
EncodeFile ==
    /\ enc = "none"
    /\ IF file_data = NoFile
       THEN \* open() fails; line 93 reports it
            /\ enc' = "error"
            /\ UNCHANGED <<binary_data, png, png_path>>
       ELSE LET data == Wrap(file_path, file_data)
                img == Pack(data)
            IN /\ binary_data' = data
               /\ \/ /\ enc' = "saved"
                     /\ png' = img
                     /\ png_path' = SavePath(png_dest_path)
                  \/ \* an image without pixels that the writer rejects
                     /\ img.width = 0
                     /\ enc' = "error"
                     /\ UNCHANGED <<png, png_path>>
    /\ UNCHANGED <<file_path, file_data, png_dest_path, dest_exists,
                   dest_files, dec, dec_step, read_bits, bytes_data, names,
                   written>>

\* decode_png, lines 100-150, reading image file img
DecodePng(img) ==
    /\ dec = "none"
    /\ png' = img
    /\ IF img = NoImage
       THEN \* Image.open fails; line 149 reports it
            /\ dec' = "DecodingError"
            /\ dec_step' = "open"
            /\ UNCHANGED <<read_bits, bytes_data, dest_exists, dest_files,
                           names, written>>
       ELSE LET bits == ReadBits(img)
            IN /\ read_bits' = bits
               /\ IF NoBits(bits)
                  THEN /\ dec' = "EmptyOrInvalidImage"
                       /\ dec_step' = "extract_bits"
                       /\ UNCHANGED <<bytes_data, dest_exists, dest_files,
                                      names, written>>
                  ELSE LET data == ReconstructBytes(bits, 0)
                           zf == ZipOpen(data)
                           ex == ExtractAll(zf.members, dest_files, <<>>)
                       IN /\ bytes_data' = data
                          /\ dest_exists' = MakeDirs(dest_exists)
                          /\ IF ~zf.ok
                             THEN /\ dec' = "MalformedArchive"
                                  /\ dec_step' = "zipfile"
                                  /\ UNCHANGED <<dest_files, names, written>>
                             ELSE /\ dec_step' = "extractall"
                                  /\ dest_files' = ex.files
                                  /\ written' = ex.written
                                  /\ dec' = CASE ex.status = "ok" -> "Recovered"
                                              [] ex.status = "BadZipFile" ->
                                                   "MalformedArchive"
                                              [] OTHER -> "DecodingError"
                                  /\ names' = IF ex.status = "ok"
                                              THEN NameList(zf.members)
                                              ELSE <<>>
    /\ UNCHANGED <<file_path, file_data, png_dest_path, png_path,
                   binary_data, enc>>

\* one run of decode_png: on the image encode_file saved (none before it
\* ran), or, where there is no source to encode, on any given image
Decode ==
    /\ dec = "none"
    /\ IF file_data # NoFile
       THEN DecodePng(png)
       ELSE \E sh \in Shapes : \E f \in Grids(sh[1], sh[2]) :
               DecodePng([width |-> sh[1], height |-> sh[2], pix |-> f])

Next == EncodeFile \/ Decode

Spec == Init /\ [][Next]_vars

\* ------------------------------------------------------------ properties
Pow2(e) == IF e = 0 THEN 1 ELSE IF e = 1 THEN 2 ELSE IF e = 2 THEN 4
           ELSE IF e = 3 THEN 8 ELSE IF e = 4 THEN 16 ELSE IF e = 5 THEN 32
           ELSE IF e = 6 THEN 64 ELSE 128

\* bit i (0 = most significant) of byte v
BitOf(v, i) == (v \div Pow2(7 - i)) % 2

\* decode_png went past the empty check on the image in png
Unpacked == dec_step \in {"zipfile", "extractall"}

\* C1: unpacking the image packed from a non-empty byte stream B gives back
\* exactly B, same length, same bytes, same order.
RoundTrip ==
    (enc = "saved" /\ binary_data # <<>> /\ dec # "none" /\ dec_step # "open")
    => /\ Unpacked
       /\ Len(bytes_data) = Len(binary_data)
       /\ \A j \in 1..Len(binary_data) : bytes_data[j] = binary_data[j]

RoundTripWitness ==
    /\ enc = "saved"
    /\ Len(binary_data) >= 2
    /\ Unpacked
    /\ bytes_data = binary_data

\* C2: for n = 8 * len(B) > 0 the image is square with the minimal side whose
\* square holds n bits, and it has exactly side*side - n PAD pixels, all at
\* row-major positions n .. side*side - 1.
DimensionLaw ==
    (enc = "saved" /\ binary_data # <<>>)
    => LET n == 8 * Len(binary_data)
           side == png.width
           pads == {c \in DOMAIN png.pix : png.pix[c] = GRAY_PADDING}
       IN /\ png.height = side
          /\ DOMAIN png.pix = (0..(side - 1)) \X (0..(side - 1))
          /\ side * side >= n
          /\ (side - 1) * (side - 1) < n
          /\ Cardinality(pads) = side * side - n
          /\ \A c \in pads : c[2] * side + c[1] \in n..(side * side - 1)

DimensionLawWitness ==
    /\ enc = "saved"
    /\ binary_data # <<>>
    /\ png.width * png.width > 8 * Len(binary_data)

\* C3: the pixel at row-major position k < 8 * len(B) is WHITE when bit
\* (B[k div 8] >> (7 - k mod 8)) & 1 is 1 and BLACK when it is 0, every pixel
\* is one of 0, 255, 127, and the byte 0x41 packs to the 3x3 image
\* BLACK WHITE BLACK / BLACK BLACK BLACK / BLACK WHITE PAD.
PixelLayout ==
    enc = "saved"
    => LET side == png.width
       IN /\ \A k \in 0..(8 * Len(binary_data) - 1) :
                png.pix[<<k % side, k \div side>>] =
                    IF BitOf(binary_data[(k \div 8) + 1], k % 8) = 1
                    THEN 255 ELSE 0
          /\ \A c \in DOMAIN png.pix : png.pix[c] \in {0, 255, 127}
          /\ binary_data = <<65>>
             => /\ png.width = 3 /\ png.height = 3
                /\ [q \in 1..9 |-> png.pix[<<(q - 1) % 3, (q - 1) \div 3>>]]
                   = <<0, 255, 0, 0, 0, 0, 0, 255, 127>>

PixelLayoutWitness == enc = "saved" /\ binary_data = <<65>>

\* C4: packing an empty byte stream gives a 1x1 image whose single pixel is
\* PAD.
EmptyPackOnePad ==
    (enc # "none" /\ file_data # NoFile /\ binary_data = <<>>)
    => /\ enc = "saved"
       /\ png.width = 1 /\ png.height = 1
       /\ png.pix[<<0, 0>>] = GRAY_PADDING

\* C5: decoding an image without a WHITE or BLACK pixel ends in
\* EmptyOrInvalidImage, and nothing after the empty check happens: no bytes
\* reconstructed, destination folder not created, no archive parsing.
EmptyImageAborts ==
    [][ (/\ dec = "none" /\ dec' # "none"
         /\ png' # NoImage
         /\ \A c \in DOMAIN png'.pix : png'.pix[c] \notin {0, 255})
        => /\ dec' = "EmptyOrInvalidImage"
           /\ dec_step' = "extract_bits"
           /\ bytes_data' = <<>>
           /\ dest_exists' = dest_exists
           /\ dest_files' = dest_files
           /\ names' = <<>> /\ written' = <<>> ]_vars

EmptyImageAbortsWitness ==
    /\ dec = "EmptyOrInvalidImage"
    /\ png.width * png.height >= 2
    /\ \A c \in DOMAIN png.pix : png.pix[c] = GRAY_PADDING
    /\ ~dest_exists

\* every member of an archive stream decodes and matches its checksum
RECURSIVE MembersIntact(_)
MembersIntact(members) ==
    \/ members = <<>>
    \/ /\ Inflate(Head(members).comp).ok
       /\ Crc(Inflate(Head(members).comp).data) = Head(members).crc
       /\ MembersIntact(Tail(members))

ValidArchive(bs) == ZipOpen(bs).ok /\ MembersIntact(ZipOpen(bs).members)

\* C6: when the recovered byte stream is not a valid archive, the run ends in
\* MalformedArchive, no entry is extracted and no file is written into the
\* destination folder.
InvalidArchiveWritesNothing ==
    [][ (dec = "none" /\ Unpacked' /\ ~ValidArchive(bytes_data'))
        => /\ dec' = "MalformedArchive"
           /\ written' = <<>>
           /\ dest_files' = dest_files ]_vars

\* C7 as stated: when the recovered stream fails to parse as an archive, the
\* filesystem is left as it was, the destination folder not created.
ParseFailureNoWrites ==
    [][ (dec = "none" /\ dec_step' = "zipfile")
        => /\ dest_files' = dest_files
           /\ dest_exists' = dest_exists
           /\ file_data' = file_data ]_vars

\* C7 amended: when the recovered stream fails to parse as an archive, no
\* file is written or changed; the only filesystem effect is that the
\* destination folder exists afterwards, created when it was absent.
ParseFailureOnlyMakesDir ==
    [][ (dec = "none" /\ dec_step' = "zipfile")
        => /\ dec' = "MalformedArchive"
           /\ dest_files' = dest_files
           /\ dest_exists' = TRUE
           /\ written' = <<>>
           /\ file_data' = file_data ]_vars

ParseFailureOnlyMakesDirWitness ==
    /\ dec = "MalformedArchive"
    /\ dec_step = "zipfile"
    /\ dest_exists
    /\ dest_files = {}

\* name is the last component of path
IsBaseOf(name, path) ==
    /\ EndsWith(path, name)
    /\ \A i \in 1..Len(name) : name[i] # "/"
    /\ Len(name) = Len(path) \/ path[Len(path) - Len(name)] = "/"

\* the model's source paths whose extension is .zip in any letter case
ZipNamed ==
    { <<"a", ".", "z", "i", "p">>, <<"a", ".", "Z", "I", "P">>,
      <<"d", "/", "b", ".", "z", "i", "p">> }

\* C8: a non-archive source with contents C and base name name is wrapped
\* into an archive with exactly one entry, named name and holding C, and
\* decoding the image of that archive extracts exactly one file, named name,
\* with contents C.
ArchiveSymmetry ==
    (enc = "saved" /\ file_path \notin ZipNamed)
    => LET zf == ZipOpen(binary_data)
       IN /\ zf.ok
          /\ Len(zf.members) = 1
          /\ IsBaseOf(zf.members[1].name, file_path)
          /\ Inflate(zf.members[1].comp) = [ok |-> TRUE, data |-> file_data]
          /\ (dec # "none" /\ dec_step # "open")
             => /\ dec = "Recovered"
                /\ written = <<zf.members[1].name>>
                /\ names = written
                /\ dest_exists
                /\ {f.data : f \in {g \in dest_files : g.name = written[1]}}
                   = {file_data}

ArchiveSymmetryWitness ==
    /\ enc = "saved"
    /\ dec = "Recovered"
    /\ file_path = <<"d", "/", "a">>
    /\ Len(file_data) = 2

\* C9: a source whose extension is .zip, in any letter case, is handed to the
\* bitmap stage byte for byte: no compression, no added entry.
ArchiveIdempotence ==
    (enc # "none" /\ file_data # NoFile /\ file_path \in ZipNamed)
    => binary_data = file_data

ArchiveIdempotenceWitness ==
    /\ enc = "saved"
    /\ file_path = <<"a", ".", "Z", "I", "P">>
    /\ file_data = ZipSerialize(GoodOne)
    /\ binary_data = file_data

\* the row-major positions (from 1) of the BLACK and WHITE pixels of img
DataPositions(img) ==
    {q \in 1..(img.width * img.height) :
        img.pix[<<(q - 1) % img.width, (q - 1) \div img.width>>] \in {0, 255}}

\* C10: with S the BLACK/WHITE pixels of the image in row-major order, as
\* bits, and k = len(S) > 0, decode_png rebuilds ceil(k/8) bytes; bit r of
\* the byte string is S[r], and the bits after S in the last byte are 0.
UnpackResult ==
    Unpacked
    => LET pos == DataPositions(png)
           k == Cardinality(pos)
           rank(q) == Cardinality({r \in pos : r <= q})
       IN /\ k > 0
          /\ Len(read_bits) = k
          /\ Len(bytes_data) = (k + 7) \div 8
          /\ \A q \in pos :
                BitOf(bytes_data[((rank(q) - 1) \div 8) + 1],
                      (rank(q) - 1) % 8)
                = IF png.pix[<<(q - 1) % png.width,
                               (q - 1) \div png.width>>] = 255
                  THEN 1 ELSE 0
          /\ \A r \in (k + 1)..(8 * Len(bytes_data)) :
                BitOf(bytes_data[((r - 1) \div 8) + 1], (r - 1) % 8) = 0

UnpackResultWitness ==
    /\ Unpacked
    /\ enc = "none"
    /\ Len(read_bits) = 9
    /\ bytes_data[2] = 128

====
